---- MODULE Spec2Model ----
(***************************************************************************)
(* Model of czsc's bar aggregation (czsc/utils/bar_generator.py): the      *)
(* period-end resolvers freq_end_date / freq_end_time, the streaming       *)
(* BarGenerator (init_freq_bars, update, _update_freq) and the batch       *)
(* resample_bars.                                                          *)
(*                                                                         *)
(* Encodings.  A datetime is a record [year, month, day, hour, minute,     *)
(* second, microsecond].  Python's None is the empty tuple << >>, a        *)
(* present optional value v is << v >> (RawBar.amount, end_dt); the symbol *)
(* None is the string "None".  A Freq member is named by its enum name     *)
(* ("F1" is Freq.F1 = '1分钟', "D" is Freq.D = '日线', ...).  A raised      *)
(* exception is recorded by its class name in the variable raised.         *)
(***************************************************************************)
EXTENDS Integers, Sequences, FiniteSets, TLC

(***************************************************************************)
(* Bounds of the model.                                                    *)
(***************************************************************************)
MaxSteps == 3        \* calls made on one generator
MaxCount == 2        \* largest max_count a generator is constructed with
MaxSeedLen == 3      \* longest list handed to init_freq_bars
MaxFed == 3          \* longest replayed stream / batch table
MaxFreqs == 2        \* longest list of target frequencies in a construction

(***************************************************************************)
(* Python's None and exceptions.                                           *)
(***************************************************************************)
None == << >>

Some(v) == << v >>

NoError == "NoError"

(***************************************************************************)
(* datetime arithmetic (the standard library's proleptic Gregorian         *)
(* calendar, as used through datetime, timedelta and pandas.to_datetime).  *)
(***************************************************************************)
Years == 2023 .. 2026

IsLeap(y) == (y % 4 = 0 /\ y % 100 # 0) \/ y % 400 = 0

DaysInMonth(y, m) ==
    IF m = 2 THEN (IF IsLeap(y) THEN 29 ELSE 28)
    ELSE IF m \in {4, 6, 9, 11} THEN 30 ELSE 31

DaysBeforeYear(y) ==
    (y - 1) * 365 + ((y - 1) \div 4) - ((y - 1) \div 100) + ((y - 1) \div 400)

RECURSIVE DaysBeforeMonth(_, _)
DaysBeforeMonth(y, m) ==
    IF m = 1 THEN 0 ELSE DaysBeforeMonth(y, m - 1) + DaysInMonth(y, m - 1)

\* date.toordinal()
ToOrdinal(y, m, d) == DaysBeforeYear(y) + DaysBeforeMonth(y, m) + d

\* date.fromordinal(n), as [year, month, day]
FromOrdinal(n) ==
    LET y == CHOOSE yy \in Years :
                 DaysBeforeYear(yy) < n /\ n <= DaysBeforeYear(yy + 1)
        r == n - DaysBeforeYear(y)
        m == CHOOSE mm \in 1 .. 12 :
                 DaysBeforeMonth(y, mm) < r
                 /\ r <= DaysBeforeMonth(y, mm) + DaysInMonth(y, mm)
    IN  [year |-> y, month |-> m, day |-> r - DaysBeforeMonth(y, m)]

\* datetime(year, month, day[, hour, minute, second, microsecond])
DateTime(y, mo, d, h, mi, s, us) ==
    [year |-> y, month |-> mo, day |-> d, hour |-> h, minute |-> mi,
     second |-> s, microsecond |-> us]

Midnight(y, mo, d) == DateTime(y, mo, d, 0, 0, 0, 0)

\* date.isoweekday(): Monday is 1, Sunday is 7
IsoWeekday(dt) == ((ToOrdinal(dt.year, dt.month, dt.day) + 6) % 7) + 1

\* dt.replace(year=d.year, month=d.month, day=d.day)
WithDate(dt, d) == [dt EXCEPT !.year = d.year, !.month = d.month, !.day = d.day]

\* dt + timedelta(days=k)
AddDays(dt, k) == WithDate(dt, FromOrdinal(ToOrdinal(dt.year, dt.month, dt.day) + k))

\* dt + timedelta(minutes=k), k >= 0
AddMinutes(dt, k) ==
    LET total == dt.hour * 60 + dt.minute + k
        rolled == AddDays(dt, total \div (24 * 60))
        rest == total % (24 * 60)
    IN  [rolled EXCEPT !.hour = rest \div 60, !.minute = rest % 60]

\* the comparison of two datetimes, a < b and a <= b
DtLess(a, b) ==
    LET da == ToOrdinal(a.year, a.month, a.day)
        db == ToOrdinal(b.year, b.month, b.day)
        sa == (a.hour * 60 + a.minute) * 60 + a.second
        sb == (b.hour * 60 + b.minute) * 60 + b.second
    IN  \/ da < db
        \/ da = db /\ sa < sb
        \/ da = db /\ sa = sb /\ a.microsecond < b.microsecond

DtLeq(a, b) == a = b \/ DtLess(a, b)

(***************************************************************************)
(* Freq and the period-end resolvers.                                      *)
(***************************************************************************)
\* __validate_freqs.sorted_freqs, by enum member name
sorted_freqs == << "Tick", "F1", "F5", "F15", "F30", "F60", "D", "W", "M", "S", "Y" >>

Freq == { sorted_freqs[i] : i \in 1 .. Len(sorted_freqs) }

\* int(str(freq.value).strip("分钟")) for the minute frequencies
FreqMinutes(freq) ==
    CASE freq = "F1" -> 1
      [] freq = "F5" -> 5
      [] freq = "F15" -> 15
      [] freq = "F30" -> 30
      [] freq = "F60" -> 60

\* freq_end_date with a month end that knows no leap year
freq_end_date_noleap(dt, freq) ==
    LET d == Midnight(dt.year, dt.month, dt.day)
    IN  CASE freq = "D" -> d
          [] freq = "W" -> AddDays(d, 5 - IsoWeekday(d))
          [] freq = "Y" -> Midnight(d.year, 12, 31)
          [] freq = "M" ->
                Midnight(d.year, d.month, IF d.month = 2 THEN 28 ELSE DaysInMonth(d.year, d.month))
          [] freq = "S" ->
                IF d.month \in {1, 2, 3} THEN AddDays(Midnight(d.year, 4, 1), -1)
                ELSE IF d.month \in {4, 5, 6} THEN AddDays(Midnight(d.year, 7, 1), -1)
                ELSE IF d.month \in {7, 8, 9} THEN AddDays(Midnight(d.year, 10, 1), -1)
                ELSE Midnight(d.year, 12, 31)
          [] OTHER -> d

\* freq_end_date(dt, freq): dt is a date, the result a datetime at midnight
freq_end_date(dt, freq) ==
    LET d == Midnight(dt.year, dt.month, dt.day)
    IN  CASE freq = "D" -> d
          [] freq = "W" -> AddDays(d, 5 - IsoWeekday(d))
          [] freq = "Y" -> Midnight(d.year, 12, 31)
          [] freq = "M" ->
                IF d.month = 12 THEN Midnight(d.year, 12, 31)
                ELSE AddDays(Midnight(d.year, d.month + 1, 1), -1)
          [] freq = "S" ->
                IF d.month \in {1, 2, 3} THEN AddDays(Midnight(d.year, 4, 1), -1)
                ELSE IF d.month \in {4, 5, 6} THEN AddDays(Midnight(d.year, 7, 1), -1)
                ELSE IF d.month \in {7, 8, 9} THEN AddDays(Midnight(d.year, 10, 1), -1)
                ELSE Midnight(d.year, 12, 31)
          [] OTHER -> d

\* freq_end_time.dt_span[60], as (hour, minute) pairs in list order
dt_span60 ==
    << <<1, 0>>, <<2, 0>>, <<3, 0>>, <<10, 30>>, <<11, 30>>, <<14, 0>>,
       <<15, 0>>, <<22, 0>>, <<23, 0>>, <<23, 59>> >>

\* freq_end_time(dt, freq)
freq_end_time(dt, freq) ==
    LET t == [dt EXCEPT !.second = 0, !.microsecond = 0]
    IN  IF freq \in {"F1", "F5", "F15", "F30", "F60"}
        THEN LET m == FreqMinutes(freq)
             IN  IF m < 60
                 THEN IF (t.hour = 15 /\ t.minute = 0) \/ (t.hour = 11 /\ t.minute = 30)
                      THEN t
                      ELSE LET delta_m == t.minute % m
                           IN  IF delta_m # 0 THEN AddMinutes(t, m - delta_m) ELSE t
                 ELSE LET hits == { i \in 1 .. Len(dt_span60) :
                                      DtLeq(t, [t EXCEPT !.hour = dt_span60[i][1],
                                                         !.minute = dt_span60[i][2]]) }
                          first == CHOOSE i \in hits : \A j \in hits : i <= j
                      IN  [t EXCEPT !.hour = dt_span60[first][1],
                                    !.minute = dt_span60[first][2]]
        ELSE freq_end_date(t, freq)

(***************************************************************************)
(* The batch resolver freq_end_time_V230921.  Its table freq_edt_map is    *)
(* read from the reference dataset minites_split.feather, which is not     *)
(* among the sources: the table is modelled from the specification's       *)
(* Session Calendar (minute of day -> clock time at which the period       *)
(* closes), for the day session 09:31-11:30 and 13:01-15:00; any other     *)
(* minute is unmapped (KeyError).  The futures branch, which needs the     *)
(* trading calendar of next_trading_date, is outside the model: market is  *)
(* "A股" or the default "默认", written "A" and "default".                  *)
(***************************************************************************)
MinuteFreqs == {"F1", "F5", "F15", "F30", "F60"}

InSession(mod) == (571 <= mod /\ mod <= 690) \/ (781 <= mod /\ mod <= 900)

\* the minute of day a period of m minutes containing minute mod closes at
SessionClose(mod, m) ==
    IF m < 60 THEN ((mod + m - 1) \div m) * m
    ELSE IF mod <= 630 THEN 630
    ELSE IF mod <= 690 THEN 690
    ELSE IF mod <= 840 THEN 840
    ELSE 900

\* freq_edt_map[key][hm], as the minute of day, or None when hm is no key
freq_edt_map(freq, market, mod) ==
    IF InSession(mod) THEN Some(SessionClose(mod, FreqMinutes(freq))) ELSE None

\* the rounding of freq_end_time_V230921: seconds go up to the next minute
round_up_minute(dt) ==
    IF dt.second > 0 \/ dt.microsecond > 0
    THEN AddMinutes([dt EXCEPT !.second = 0, !.microsecond = 0], 1)
    ELSE dt

\* freq_end_time_V230921 from the rounded dt on: the period end and the
\* exception raised
freq_end_time_V230921_rounded(dt, freq, market) ==
    IF freq \in MinuteFreqs
    THEN IF freq_edt_map(freq, market, dt.hour * 60 + dt.minute) = None
         THEN [dt |-> dt, raised |-> "KeyError"]
         ELSE [dt |-> [dt EXCEPT
                          !.hour = freq_edt_map(freq, market, dt.hour * 60 + dt.minute)[1] \div 60,
                          !.minute = freq_edt_map(freq, market, dt.hour * 60 + dt.minute)[1] % 60],
               raised |-> NoError]
    ELSE [dt |-> freq_end_date(dt, freq), raised |-> NoError]

\* freq_end_time_V230921(dt, freq, market)
freq_end_time_V230921(dt, freq, market) ==
    freq_end_time_V230921_rounded(round_up_minute(dt), freq, market)

(***************************************************************************)
(* RawBar and the BarGenerator's operations, as functions of the object.   *)
(* A generator g is the record of its attributes; an operation yields the  *)
(* object after the call and the exception the call raised, if any.        *)
(***************************************************************************)
\* objects.RawBar
RawBar(symbol, id, dt, freq, open, close, high, low, vol, amount) ==
    [symbol |-> symbol, id |-> id, dt |-> dt, freq |-> freq, open |-> open,
     close |-> close, high |-> high, low |-> low, vol |-> vol, amount |-> amount]

Max(a, b) == IF a >= b THEN a ELSE b

Min(a, b) == IF a <= b THEN a ELSE b

\* the list slice b[-n:]
LastN(b, n) ==
    IF n = 0 \/ n >= Len(b) THEN b
    ELSE IF n > 0 THEN SubSeq(b, Len(b) - n + 1, Len(b))
    ELSE SubSeq(b, Min(-n, Len(b)) + 1, Len(b))

\* whether element x occurs in sequence s before position i
SeenBefore(s, i, x) == \E j \in 1 .. (i - 1) : s[j] = x

\* list(self.bars.keys()): the dict built by __init__ keeps insertion order,
\* the configured freqs (first occurrence of each), then base_freq if new
RECURSIVE Dedup(_, _)
Dedup(s, i) ==
    IF i > Len(s) THEN << >>
    ELSE IF SeenBefore(s, i, s[i]) THEN Dedup(s, i + 1)
    ELSE << s[i] >> \o Dedup(s, i + 1)

WithBase(ks, base_freq) ==
    IF \E i \in 1 .. Len(ks) : ks[i] = base_freq THEN ks ELSE Append(ks, base_freq)

bars_keys(freqs, base_freq) == WithBase(Dedup(freqs, 1), base_freq)

KeySet(g) == { g.keys[i] : i \in 1 .. Len(g.keys) }

\* position of base_freq in sorted_freqs (sorted_freqs.index(self.base_freq))
IndexOf(base_freq) == CHOOSE k \in 1 .. Len(sorted_freqs) : sorted_freqs[k] = base_freq

\* __validate_freqs accepting only freqs strictly coarser than base_freq
\* (the slice sorted_freqs[i + 1:])
validate_freqs_strict(base_freq, freqs) ==
    \E k \in 1 .. Len(freqs) :
        freqs[k] \notin { sorted_freqs[j] : j \in (IndexOf(base_freq) + 1) .. Len(sorted_freqs) }

\* BarGenerator.__validate_freqs: TRUE when it raises ValueError
validate_freqs_raises(base_freq, freqs) ==
    \E k \in 1 .. Len(freqs) :
        freqs[k] \notin { sorted_freqs[j] : j \in IndexOf(base_freq) .. Len(sorted_freqs) }

\* the attributes __init__ assigns, keys being the key order of self.bars
NewGenerator(base_freq, freqs, max_count, keys) ==
    [symbol |-> "None", end_dt |-> None, base_freq |-> base_freq,
     max_count |-> max_count, freqs |-> freqs, keys |-> keys,
     bars |-> [f \in { keys[i] : i \in 1 .. Len(keys) } |-> << >>]]

\* BarGenerator.__init__
BarGenerator(base_freq, freqs, max_count) ==
    [g |-> NewGenerator(base_freq, freqs, max_count, bars_keys(freqs, base_freq)),
     raised |-> IF validate_freqs_raises(base_freq, freqs)
                THEN "ValueError" ELSE NoError]

\* init_freq_bars without its emptiness assertion (a silent overwrite)
init_freq_bars_overwrite(g, freq, bs) ==
    IF freq \notin KeySet(g) THEN [g |-> g, raised |-> "AssertionError"]
    ELSE IF bs = << >>
         THEN [g |-> [g EXCEPT !.bars[freq] = bs], raised |-> "IndexError"]
    ELSE [g |-> [g EXCEPT !.bars[freq] = bs, !.symbol = bs[Len(bs)].symbol],
          raised |-> NoError]

\* BarGenerator.init_freq_bars
init_freq_bars(g, freq, bs) ==
    IF freq \notin KeySet(g) THEN [g |-> g, raised |-> "AssertionError"]
    ELSE IF g.bars[freq] # << >> THEN [g |-> g, raised |-> "AssertionError"]
    ELSE IF bs = << >>
         THEN [g |-> [g EXCEPT !.bars[freq] = bs], raised |-> "IndexError"]
    ELSE [g |-> [g EXCEPT !.bars[freq] = bs, !.symbol = bs[Len(bs)].symbol],
          raised |-> NoError]

\* the bar _update_freq opens: the incoming bar's own values, stamped with
\* the period end
open_bar(bar, freq, freq_edt, id) ==
    RawBar(bar.symbol, id, freq_edt, freq, bar.open, bar.close, bar.high,
           bar.low, bar.vol, bar.amount)

\* a merge that keeps the high of the bar it merges into
merge_bar_keep_high(last, bar, freq, freq_edt) ==
    RawBar(bar.symbol, last.id, freq_edt, freq, last.open, bar.close,
           last.high, Min(last.low, bar.low),
           last.vol + bar.vol, Some(last.amount[1] + bar.amount[1]))

\* the bar _update_freq merges the incoming bar into
merge_bar(last, bar, freq, freq_edt) ==
    RawBar(bar.symbol, last.id, freq_edt, freq, last.open, bar.close,
           Max(last.high, bar.high), Min(last.low, bar.low),
           last.vol + bar.vol, Some(last.amount[1] + bar.amount[1]))

\* an opened bar taking the id of the bar before it (no + 1)
same_id(last) == last.id

\* the id of a bar opened after last
next_id(last) == last.id + 1

\* _update_freq appending a bar on every call, merging never
update_freq_append(bs, bar, freq, freq_edt) ==
    [bars |-> [bs EXCEPT ![freq] =
                  Append(@, open_bar(bar, freq, freq_edt,
                                     IF @ = << >> THEN 0 ELSE next_id(@[Len(@)])))],
     raised |-> NoError]

\* BarGenerator._update_freq on the dict bs, freq_edt being the period end:
\* the dict after the call and the exception raised (None + number is a
\* TypeError, raised while the merged RawBar is built, before the list is
\* touched)
update_freq_at(bs, bar, freq, freq_edt) ==
    IF bs[freq] = << >>
    THEN [bars |-> [bs EXCEPT ![freq] = Append(@, open_bar(bar, freq, freq_edt, 0))],
          raised |-> NoError]
    ELSE IF freq_edt # bs[freq][Len(bs[freq])].dt
    THEN [bars |-> [bs EXCEPT ![freq] =
              Append(@, open_bar(bar, freq, freq_edt, next_id(@[Len(@)])))],
          raised |-> NoError]
    ELSE IF bs[freq][Len(bs[freq])].amount = None \/ bar.amount = None
    THEN [bars |-> bs, raised |-> "TypeError"]
    ELSE [bars |-> [bs EXCEPT ![freq][Len(bs[freq])] = merge_bar(@, bar, freq, freq_edt)],
          raised |-> NoError]

\* BarGenerator._update_freq
update_freq(bs, bar, freq) == update_freq_at(bs, bar, freq, freq_end_time(bar.dt, freq))

\* the loop of update over self.bars.keys(), left at the first exception
RECURSIVE update_loop(_, _, _, _)
RECURSIVE update_loop_from(_, _, _, _)
update_loop_from(r, bar, keys, i) ==
    IF r.raised # NoError THEN r ELSE update_loop(r.bars, bar, keys, i)

update_loop(bs, bar, keys, i) ==
    IF i > Len(keys) THEN [bars |-> bs, raised |-> NoError]
    ELSE update_loop_from(update_freq(bs, bar, keys[i]), bar, keys, i + 1)

\* the duplicate guard of update
is_duplicate(g, bar) ==
    g.bars[g.base_freq] # << >>
    /\ g.bars[g.base_freq][Len(g.bars[g.base_freq])].dt = bar.dt

\* the trimming loop of update
trim_bars(bs, max_count) == [f \in DOMAIN bs |-> LastN(bs[f], max_count)]

\* update's first assignments: symbol and end_dt follow the bar
record_bar(g, bar) == [g EXCEPT !.symbol = bar.symbol, !.end_dt = Some(bar.dt)]

\* the end of update: trimming, which an exception in the loop skips
update_finish(g, r) ==
    IF r.raised # NoError THEN [g |-> [g EXCEPT !.bars = r.bars], raised |-> r.raised]
    ELSE [g |-> [g EXCEPT !.bars = trim_bars(r.bars, g.max_count)], raised |-> NoError]

\* update from the duplicate guard on
update_guarded(g, bar) ==
    IF is_duplicate(g, bar) THEN [g |-> g, raised |-> NoError]
    ELSE update_finish(g, update_loop(g.bars, bar, g.keys, 1))

\* update recording symbol and end_dt before it checks the bar's frequency
update_assert_late(g, bar) ==
    IF bar.freq # g.base_freq
    THEN [g |-> record_bar(g, bar), raised |-> "AssertionError"]
    ELSE update_guarded(record_bar(g, bar), bar)

\* BarGenerator.update
update(g, bar) ==
    IF bar.freq # g.base_freq THEN [g |-> g, raised |-> "AssertionError"]
    ELSE update_guarded(record_bar(g, bar), bar)

(***************************************************************************)
(* resample_bars(df, target_freq, market): df is the table's rows in       *)
(* order, each row a bar's symbol, dt, open, close, high, low, vol,        *)
(* amount.                                                                 *)
(***************************************************************************)
\* the keys of df.groupby('freq_edt'), in ascending order
RECURSIVE SortedDts(_)
SortedDts(S) ==
    IF S = {} THEN << >>
    ELSE LET m == CHOOSE x \in S : \A y \in S : DtLeq(x, y)
         IN  << m >> \o SortedDts(S \ {m})

RECURSIVE SumOver(_, _, _)
SumOver(f, I, i) ==
    IF i = 0 THEN 0
    ELSE SumOver(f, I, i - 1) + (IF i \in I THEN f[i] ELSE 0)

MaxOver(f, I) == CHOOSE v \in { f[i] : i \in I } : \A i \in I : f[i] <= v

MinOver(f, I) == CHOOSE v \in { f[i] : i \in I } : \A i \in I : v <= f[i]

FirstOf(I) == CHOOSE i \in I : \A j \in I : i <= j

LastOf(I) == CHOOSE i \in I : \A j \in I : j <= i

\* the amounts of the rows, None read as NaN and skipped by sum
AmountOrZero(df) == [i \in 1 .. Len(df) |-> IF df[i].amount = None THEN 0 ELSE df[i].amount[1]]

\* one group of the aggregation: symbol first, open first, close last,
\* high max, low min, vol sum, amount sum, stamped with the group's key
agg_group(df, I, key, id, freq) ==
    RawBar(df[FirstOf(I)].symbol, id, key, freq, df[FirstOf(I)].open,
           df[LastOf(I)].close,
           MaxOver([i \in 1 .. Len(df) |-> df[i].high], I),
           MinOver([i \in 1 .. Len(df) |-> df[i].low], I),
           SumOver([i \in 1 .. Len(df) |-> df[i].vol], I, Len(df)),
           Some(SumOver(AmountOrZero(df), I, Len(df))))

\* the RawBar list built from the grouped table, ids from 1
grouped_bars(df, freq, edts, keys) ==
    [k \in 1 .. Len(keys) |->
        agg_group(df, { i \in 1 .. Len(df) : edts[i] = keys[k] }, keys[k], k, freq)]

\* dropping the last bar when the table ends before it
drop_unfinished(df, bs) ==
    IF DtLess(df[Len(df)].dt, bs[Len(bs)].dt) THEN SubSeq(bs, 1, Len(bs) - 1) ELSE bs

\* resample_bars once the column freq_edt is computed (r[i] the resolver's
\* result for row i)
resample_rows(df, freq, r) ==
    IF \E i \in 1 .. Len(df) : r[i].raised # NoError
    THEN [bars |-> << >>, raised |-> "KeyError"]
    ELSE IF df = << >> THEN [bars |-> << >>, raised |-> "IndexError"]
    ELSE [bars |-> drop_unfinished(df,
                      grouped_bars(df, freq, [i \in 1 .. Len(df) |-> r[i].dt],
                                   SortedDts({ r[i].dt : i \in 1 .. Len(df) }))),
          raised |-> NoError]

\* resample_bars(df, target_freq, raw_bars=True, market=market)
resample_bars(df, target_freq, market) ==
    resample_rows(df, target_freq,
                  [i \in 1 .. Len(df) |-> freq_end_time_V230921(df[i].dt, target_freq, market)])

(***************************************************************************)
(* Inputs the callers supply.                                              *)
(***************************************************************************)
\* 2024-03-15 is a Friday, 2024-03-18 the Monday after it
T0931 == DateTime(2024, 3, 15, 9, 31, 0, 0)
T0931s == DateTime(2024, 3, 15, 9, 31, 30, 0)
T0935 == DateTime(2024, 3, 15, 9, 35, 0, 0)
T0936 == DateTime(2024, 3, 15, 9, 36, 0, 0)
TMon == DateTime(2024, 3, 18, 9, 31, 0, 0)

\* a bar as a feed hands it to update: id 0, three price/amount/symbol shapes
BarP1(dt, freq) == RawBar("A", 0, dt, freq, 2, 3, 4, 1, 1, Some(1))

BarP2(dt, freq) == RawBar("A", 0, dt, freq, 3, 2, 5, 2, 2, Some(2))

BarP3(dt, freq) == RawBar("B", 0, dt, freq, 2, 3, 4, 1, 1, None)

BarP4(dt, freq) == RawBar("A", 0, dt, freq, 6, 7, 8, 6, 2, Some(2))

\* a frequency other than f
OtherFreq(f) == IF f = "Y" THEN "Tick" ELSE "Y"

\* the bars update is called with on a generator of base frequency f
UpdateBars(f) ==
    { BarP1(T0931, f), BarP1(T0931s, f), BarP2(T0935, f), BarP1(T0936, f),
      BarP4(TMon, f), BarP3(T0935, f), BarP3(T0936, f), BarP1(T0936, OtherFreq(f)) }

\* a list of n bars of frequency freq with contiguous ascending ids from 7
\* (callers continue an earlier numbering), one a minute, the last at 09:31
SeedBars(freq, n) ==
    [i \in 1 .. n |->
        RawBar("S", 6 + i,
               AddMinutes(DateTime(2024, 3, 15, 9, 0, 0, 0), 31 - n + i),
               freq, 2, 2, 3, 1, 1, Some(1))]

\* the (freq, bars) pairs init_freq_bars is called with
SeedCalls(g) ==
    { <<f, SeedBars(f, n)>> : f \in KeySet(g), n \in {1, MaxSeedLen} }
    \cup { <<g.base_freq, << >> >>, <<OtherFreq(g.base_freq), SeedBars(OtherFreq(g.base_freq), 1)>> }

\* the (base_freq, freqs) pairs generators are constructed with
Configs ==
    { << "F1", << "F5", "D" >> >>,
      << "F5", << "F15", "F5" >> >>,
      << "D", << "W", "M" >> >> }

(***************************************************************************)
(* State: one BarGenerator's attributes, and the record of the last call.  *)
(***************************************************************************)
VARIABLES
    symbol,      \* self.symbol
    end_dt,      \* self.end_dt
    base_freq,   \* self.base_freq
    max_count,   \* self.max_count
    freqs,       \* self.freqs
    bars,        \* self.bars
    raised,      \* the exception the last call raised, or NoError
    call,        \* the last call: its name, frequency and bars
    prev,        \* the generator as it was before the last call
    seeded,      \* per frequency, the first id installed by init_freq_bars
    fed,         \* the bars handed to update so far (replay specifications)
    ncalls,      \* number of calls made
    instant,     \* the datetime handed to a period-end resolver
    resolved,    \* what the resolver returned for it
    gens,        \* two generators whose series are references into heap
    heap,        \* the list objects: heap[r] is the content of list r
    position,    \* a Position object's attributes
    returned     \* what the last Position.update call returned

vars == << symbol, end_dt, base_freq, max_count, freqs, bars, raised, call,
           prev, seeded, fed, ncalls, instant, resolved, gens, heap,
           position, returned >>

\* the state of the resolver and two-generator specifications
others == << instant, resolved, gens, heap, position, returned >>

\* one generator alone: no resolver call, no second generator
Alone ==
    /\ instant = None
    /\ resolved = None
    /\ gens = << >>
    /\ heap = << >>
    /\ position = None
    /\ returned = None

\* the generator object
Self ==
    [symbol |-> symbol, end_dt |-> end_dt, base_freq |-> base_freq,
     max_count |-> max_count, freqs |-> freqs,
     keys |-> bars_keys(freqs, base_freq), bars |-> bars]

\* the object's attributes become those of g
Install(g) ==
    /\ symbol' = g.symbol
    /\ end_dt' = g.end_dt
    /\ base_freq' = g.base_freq
    /\ max_count' = g.max_count
    /\ freqs' = g.freqs
    /\ bars' = g.bars

\* a call returned r: the object after it and the exception it raised
Returned(r) == Install(r.g) /\ raised' = r.raised

NoCall == [op |-> "none", freq |-> "Tick", bars |-> << >>]

\* a generator right after BarGenerator(base, fs, mc) returned
ConstructedAs(r) ==
    /\ r.raised = NoError
    /\ symbol = r.g.symbol
    /\ end_dt = r.g.end_dt
    /\ base_freq = r.g.base_freq
    /\ max_count = r.g.max_count
    /\ freqs = r.g.freqs
    /\ bars = r.g.bars
    /\ prev = r.g
    /\ raised = NoError
    /\ call = NoCall
    /\ seeded = [f \in DOMAIN r.g.bars |-> None]
    /\ fed = << >>
    /\ ncalls = 0
    /\ Alone

Constructed(base, fs, mc) == ConstructedAs(BarGenerator(base, fs, mc))

Init == \E cfg \in Configs, mc \in 1 .. MaxCount : Constructed(cfg[1], cfg[2], mc)

\* g.init_freq_bars(freq, bs)
InitFreqBars(freq, bs) ==
    /\ ncalls < MaxSteps
    /\ Returned(init_freq_bars(Self, freq, bs))
    /\ call' = [op |-> "init_freq_bars", freq |-> freq, bars |-> bs]
    /\ prev' = Self
    /\ seeded' = IF raised' = NoError
                 THEN [seeded EXCEPT ![freq] = Some(bs[1].id)] ELSE seeded
    /\ ncalls' = ncalls + 1
    /\ UNCHANGED << fed, others >>

\* g.update(bar)
Update(bar) ==
    /\ ncalls < MaxSteps
    /\ Returned(update(Self, bar))
    /\ call' = [op |-> "update", freq |-> bar.freq, bars |-> << bar >>]
    /\ prev' = Self
    /\ ncalls' = ncalls + 1
    /\ UNCHANGED << seeded, fed, others >>

Next ==
    \/ \E c \in SeedCalls(Self) : InitFreqBars(c[1], c[2])
    \/ \E b \in UpdateBars(base_freq) : Update(b)

Spec == Init /\ [][Next]_vars

(***************************************************************************)
(* Claims about one generator under arbitrary calls (Spec).                *)
(***************************************************************************)
\* the bar of the last update call
CallBar == call.bars[1]

BaseBars == { b \in UpdateBars(base_freq) : b.freq = base_freq }

\* C1: for every reachable generator and every bar b of the base frequency,
\* update(b) twice in a row leaves the same generator as update(b) once.
SameAfterRepeat(once, b) == update(once.g, b).g = once.g

C1_UpdateIdempotent == \A b \in BaseBars : SameAfterRepeat(update(Self, b), b)

\* C2: when the duplicate guard of update fires, nothing of the generator
\* changes: every series, symbol and end_dt are as before the call.
C2_DuplicateIsNoOp ==
    (call.op = "update" /\ call.freq = prev.base_freq /\ is_duplicate(prev, CallBar))
        => Self = prev

\* the id a frequency's numbering begins at: the first seeded id, or 0
Origin(f) == IF seeded[f] = None THEN 0 ELSE seeded[f][1]

\* C4: in every tracked series the stored ids are contiguous and ascending
\* (each id is the previous id + 1); they begin at the first seeded id, or at
\* 0 for an unseeded series, and only trimming moves the first stored id up.
C4_IdMonotonic ==
    \A f \in DOMAIN bars :
        /\ \A i \in 1 .. (Len(bars[f]) - 1) : bars[f][i + 1].id = bars[f][i].id + 1
        /\ bars[f] # << >> =>
              /\ bars[f][1].id >= Origin(f)
              /\ Len(bars[f]) < max_count => bars[f][1].id = Origin(f)
              /\ (call.op = "update" /\ prev.bars[f] = << >>) =>
                     (Len(bars[f]) = 1 /\ bars[f][1].id = 0)

\* C4 witness: a seeded series that an update extended and trimmed
C4_Witness ==
    /\ call.op = "update"
    /\ \E f \in DOMAIN bars :
          /\ seeded[f] # None
          /\ Len(bars[f]) >= 2
          /\ bars[f][1].id > seeded[f][1]
          /\ bars[f][Len(bars[f])].id > prev.bars[f][Len(prev.bars[f])].id

\* C5: once update has been called, every tracked series holds at most
\* max_count bars.
C5_WindowBound ==
    end_dt # None => \A f \in DOMAIN bars : Len(bars[f]) <= max_count

\* C8: init_freq_bars on a non-empty series raises and changes nothing; on
\* an empty series it installs exactly the supplied bars, sets symbol to
\* the last supplied bar's symbol and leaves everything else unchanged.
C8_SeedContract ==
    (call.op = "init_freq_bars" /\ call.freq \in DOMAIN prev.bars) =>
        IF prev.bars[call.freq] # << >>
        THEN raised = "AssertionError" /\ Self = prev
        ELSE call.bars # << >> =>
                /\ raised = NoError
                /\ bars[call.freq] = call.bars
                /\ symbol = call.bars[Len(call.bars)].symbol
                /\ Self = [prev EXCEPT !.bars[call.freq] = call.bars,
                                       !.symbol = call.bars[Len(call.bars)].symbol]

\* C8 witness: a re-seed refused on a series that live updates had filled
C8_Witness ==
    /\ call.op = "init_freq_bars"
    /\ call.freq \in DOMAIN prev.bars
    /\ call.bars # << >>
    /\ seeded[call.freq] = None
    /\ prev.bars[call.freq] # << >>
    /\ raised = "AssertionError"

\* C9: update with a bar of another frequency than base_freq raises and
\* leaves every series, symbol and end_dt unchanged.
C9_WrongFreqRejected ==
    (call.op = "update" /\ call.freq # prev.base_freq) =>
        (raised = "AssertionError" /\ Self = prev)

\* C9 witness: such a call on a generator that already holds bars
C9_Witness ==
    /\ call.op = "update"
    /\ call.freq # base_freq
    /\ raised = "AssertionError"
    /\ bars[base_freq] # << >>
    /\ CallBar.symbol # symbol

\* low <= open <= high and low <= close <= high
OhlcOk(b) == b.low <= b.open /\ b.open <= b.high /\ b.low <= b.close /\ b.close <= b.high

\* every bar handed to update or to init_freq_bars satisfies it
InputsOhlc ==
    /\ \A b \in UpdateBars(base_freq) : OhlcOk(b)
    /\ \A c \in SeedCalls(Self) : \A i \in 1 .. Len(c[2]) : OhlcOk(c[2][i])

\* C15: when every base bar and every seeded bar has low <= open <= high
\* and low <= close <= high, so has every stored bar of every tracked
\* frequency after any sequence of calls.
C15_OhlcInvariant ==
    InputsOhlc => \A f \in DOMAIN bars : \A i \in 1 .. Len(bars[f]) : OhlcOk(bars[f][i])

\* C15 witness: a merge that raised the high above the merged bar's own
C15_Witness ==
    /\ call.op = "update"
    /\ raised = NoError
    /\ \E f \in DOMAIN bars :
          /\ prev.bars[f] # << >>
          /\ bars[f] # << >>
          /\ bars[f][Len(bars[f])].id = prev.bars[f][Len(prev.bars[f])].id
          /\ bars[f][Len(bars[f])].high > prev.bars[f][Len(prev.bars[f])].high
          /\ bars[f][Len(bars[f])].open < CallBar.low

\* C17: update with a bar of the base frequency never raises, whatever the
\* bar's amount.
C17_UpdateNeverRaises ==
    (call.op = "update" /\ call.freq = prev.base_freq) => raised = NoError

\* the step of one frequency: old and new are the series before the call
\* and before trimming, edt the resolved period end
StepOk(old, new, bar, edt) ==
    IF old = << >> \/ old[Len(old)].dt # edt
    THEN /\ Len(new) = Len(old) + 1
         /\ SubSeq(new, 1, Len(old)) = old
         /\ new[Len(new)].open = bar.open
         /\ new[Len(new)].close = bar.close
         /\ new[Len(new)].high = bar.high
         /\ new[Len(new)].low = bar.low
         /\ new[Len(new)].vol = bar.vol
         /\ new[Len(new)].amount = bar.amount
         /\ new[Len(new)].dt = edt
         /\ new[Len(new)].id = IF old = << >> THEN 0 ELSE old[Len(old)].id + 1
    ELSE /\ Len(new) = Len(old)
         /\ SubSeq(new, 1, Len(old) - 1) = SubSeq(old, 1, Len(old) - 1)
         /\ new[Len(new)].id = old[Len(old)].id
         /\ new[Len(new)].open = old[Len(old)].open
         /\ new[Len(new)].dt = old[Len(old)].dt

\* r is the loop's result: every frequency made its step, and the stored
\* series are r's, trimmed when the call returned
StepsOk(r, bar) ==
    \A f \in DOMAIN bars :
        /\ StepOk(prev.bars[f], r.bars[f], bar, freq_end_time(bar.dt, f))
        /\ bars[f] = IF raised = NoError THEN LastN(r.bars[f], max_count) ELSE r.bars[f]

\* the last call was an update that passed the duplicate guard
NonDuplicateUpdate ==
    /\ call.op = "update"
    /\ call.freq = prev.base_freq
    /\ ~is_duplicate(prev, CallBar)

\* C18: on every non-duplicate update each tracked frequency, before
\* trimming, either opens (empty series or another period end: one bar is
\* appended with the incoming values, the period end and the next id) or
\* merges (same length, the last bar keeps id, open and timestamp); the
\* bars before the last are unchanged.
C18_OpenOrMerge ==
    NonDuplicateUpdate => StepsOk(update_loop(prev.bars, CallBar, prev.keys, 1), CallBar)

\* the last call was an update with a bar earlier than the last processed
OutOfOrderUpdate ==
    /\ NonDuplicateUpdate
    /\ prev.end_dt # None
    /\ DtLess(CallBar.dt, prev.end_dt[1])

\* the last bar of every series carries the bar's close at its period end
AllConsumed(bar) ==
    \A f \in DOMAIN bars :
        /\ bars[f] # << >>
        /\ bars[f][Len(bars[f])].close = bar.close
        /\ bars[f][Len(bars[f])].dt = freq_end_time(bar.dt, f)

\* C19: an update with a bar earlier than the last processed timestamp (and
\* not equal to the last stored base timestamp) raises nothing, opens or
\* merges in every tracked frequency and moves end_dt back to the bar's dt.
C19_OutOfOrderAccepted ==
    OutOfOrderUpdate =>
        /\ raised = NoError
        /\ end_dt = Some(CallBar.dt)
        /\ DtLess(end_dt[1], prev.end_dt[1])
        /\ AllConsumed(CallBar)

(***************************************************************************)
(* Construction (SpecCfg): BarGenerator(base_freq, freqs, max_count) for   *)
(* every base frequency and every list of up to MaxFreqs targets, then     *)
(* what the caller can do with the result.                                 *)
(***************************************************************************)
RECURSIVE SeqsUpTo(_, _)
SeqsUpTo(S, n) ==
    IF n = 0 THEN { << >> }
    ELSE LET shorter == SeqsUpTo(S, n - 1)
         IN  shorter \cup { Append(q, x) : q \in shorter, x \in S }

\* before the constructor is called there is no object
InitCfg ==
    /\ symbol = "None"
    /\ end_dt = None
    /\ base_freq = "Tick"
    /\ max_count = 0
    /\ freqs = << >>
    /\ bars = << >>
    /\ raised = NoError
    /\ call = NoCall
    /\ prev = [none |-> TRUE]
    /\ seeded = << >>
    /\ fed = << >>
    /\ ncalls = 0
    /\ Alone

\* BarGenerator(base, fs, mc): __init__ assigns the attributes, then validates
Construct(base, fs, mc) ==
    /\ call.op = "none"
    /\ Returned(BarGenerator(base, fs, mc))
    /\ call' = [op |-> "BarGenerator", freq |-> base, bars |-> << >>]
    /\ prev' = Self'
    /\ seeded' = [f \in DOMAIN bars' |-> None]
    /\ ncalls' = ncalls + 1
    /\ UNCHANGED << fed, others >>

\* the first update on the object a successful construction returned; a
\* constructor that raised returned no object to call
FirstUpdate(bar) ==
    /\ call.op = "BarGenerator"
    /\ raised = NoError
    /\ Update(bar)

NextCfg ==
    \/ call.op = "none"
       /\ \E base \in Freq, fs \in SeqsUpTo(Freq, MaxFreqs) : Construct(base, fs, MaxCount)
    \/ FirstUpdate(BarP1(T0931, base_freq))

SpecCfg == InitCfg /\ [][NextCfg]_vars

\* the canonical ordering of frequencies, finest first
CanonicalRank(f) ==
    CASE f = "Tick" -> 0 [] f = "F1" -> 1 [] f = "F5" -> 2 [] f = "F15" -> 3
      [] f = "F30" -> 4 [] f = "F60" -> 5 [] f = "D" -> 6 [] f = "W" -> 7
      [] f = "M" -> 8 [] f = "S" -> 9 [] f = "Y" -> 10

\* C7: construction raises exactly when some configured target frequency is
\* strictly finer than the base frequency in the canonical ordering, and a
\* construction that raised has processed no data.
C7_ConfigValidation ==
    call.op = "BarGenerator" =>
        /\ (raised = "ValueError") <=>
              (\E i \in 1 .. Len(freqs) : CanonicalRank(freqs[i]) < CanonicalRank(base_freq))
        /\ raised \in {NoError, "ValueError"}
        /\ \A f \in DOMAIN bars : bars[f] = << >>

\* C7 witness: base = day with a 1-minute target is refused
C7_Witness ==
    /\ call.op = "BarGenerator"
    /\ base_freq = "D"
    /\ freqs = << "F1" >>
    /\ raised = "ValueError"

(***************************************************************************)
(* Replay (SpecStream): an unseeded generator is fed base bars one at a    *)
(* time; fed is the table of the bars handed to update, the input of the   *)
(* batch path.                                                             *)
(***************************************************************************)
InitStream == \E cfg \in Configs, mc \in {1, MaxFed} : Constructed(cfg[1], cfg[2], mc)

\* g.update(bar), the bar appended to the replayed table
StreamUpdate(bar) ==
    /\ Len(fed) < MaxFed
    /\ Returned(update(Self, bar))
    /\ call' = [op |-> "update", freq |-> bar.freq, bars |-> << bar >>]
    /\ prev' = Self
    /\ fed' = Append(fed, bar)
    /\ ncalls' = ncalls + 1
    /\ UNCHANGED << seeded, others >>

NextStream == \E b \in BaseBars : StreamUpdate(b)

SpecStream == InitStream /\ [][NextStream]_vars

\* the table is in strictly ascending time order
Ascending(df) == \A i \in 1 .. (Len(df) - 1) : DtLess(df[i].dt, df[i + 1].dt)

\* what the equivalence compares of a bar
Ohlcv(b) ==
    [id |-> b.id, dt |-> b.dt, open |-> b.open, close |-> b.close,
     high |-> b.high, low |-> b.low, vol |-> b.vol]

IsPrefix(p, q) == Len(p) <= Len(q) /\ \A i \in 1 .. Len(p) : p[i] = q[i]

\* stream equals batch, but for at most one extra trailing stream bar
SameButTrailing(stream, batch) ==
    /\ batch.raised = NoError
    /\ Len(stream) \in {Len(batch.bars), Len(batch.bars) + 1}
    /\ IsPrefix([i \in 1 .. Len(batch.bars) |-> Ohlcv(batch.bars[i])],
                [i \in 1 .. Len(stream) |-> Ohlcv(stream[i])])

\* the frequencies the batch path is compared on: those whose resolution
\* rests on the sources alone
BatchFreqs == { f \in DOMAIN bars : f \notin MinuteFreqs }

\* C3: replaying an ascending table through update (unseeded, no more bars
\* than max_count) gives for every target frequency the ids, timestamps and
\* open/close/high/low/volume of resample_bars on the same table, but for
\* at most one extra trailing bar.
C3_StreamEqualsBatch ==
    (fed # << >> /\ Ascending(fed) /\ Len(fed) <= max_count) =>
        \A f \in BatchFreqs : SameButTrailing(bars[f], resample_bars(fed, f, "default"))

\* the bars of a replay all resolve to one period end of f
OnePeriod(f) == \A i \in 1 .. Len(fed) : freq_end_time(fed[i].dt, f) = freq_end_time(fed[1].dt, f)

DistinctDts(df) == \A i, j \in 1 .. Len(df) : i # j => df[i].dt # df[j].dt

\* C6: a run of bars with distinct timestamps that all resolve to the same
\* period end of F, fed to an unseeded generator, leaves in F's series
\* exactly one bar: open of the first, close of the last, the maximum high,
\* the minimum low, the summed volume, stamped with the period end.
C6_AggregationCorrect ==
    \A f \in DOMAIN bars :
        (fed # << >> /\ DistinctDts(fed) /\ OnePeriod(f)) =>
            /\ Len(bars[f]) = 1
            /\ bars[f][1].dt = freq_end_time(fed[1].dt, f)
            /\ bars[f][1].open = fed[1].open
            /\ bars[f][1].close = fed[Len(fed)].close
            /\ bars[f][1].high = MaxOver([i \in 1 .. Len(fed) |-> fed[i].high], 1 .. Len(fed))
            /\ bars[f][1].low = MinOver([i \in 1 .. Len(fed) |-> fed[i].low], 1 .. Len(fed))
            /\ bars[f][1].vol = SumOver([i \in 1 .. Len(fed) |-> fed[i].vol], 1 .. Len(fed), Len(fed))

\* the batch output on the table without its last row is kept, bar for bar,
\* when the last row arrives
StableUnder(old, new) ==
    (old.raised = NoError /\ new.raised = NoError) => IsPrefix(old.bars, new.bars)

\* C10: every bar resample_bars returns is of a fully observed period: a
\* later row of the ascending table never changes a bar already returned,
\* for intraday, day, week, month, quarter and year targets.
C10_BatchOnlyComplete ==
    (Len(fed) >= 2 /\ Ascending(fed)) =>
        \A f \in Freq \ {"Tick"} :
            StableUnder(resample_bars(SubSeq(fed, 1, Len(fed) - 1), f, "default"),
                        resample_bars(fed, f, "default"))

\* the table is in non-decreasing time order
NonDecreasing(df) == \A i \in 1 .. (Len(df) - 1) : DtLeq(df[i].dt, df[i + 1].dt)

\* C16: fed base bars in non-decreasing time order, an unseeded generator
\* keeps in every tracked frequency bars of strictly ascending timestamps.
C16_TimestampMonotonic ==
    NonDecreasing(fed) =>
        \A f \in DOMAIN bars :
            \A i \in 1 .. (Len(bars[f]) - 1) : DtLess(bars[f][i].dt, bars[f][i + 1].dt)

\* C16 witness: three bars in order, of which one frequency merged two and
\* another kept them apart
C16_Witness ==
    /\ Len(fed) = MaxFed
    /\ NonDecreasing(fed)
    /\ raised = NoError
    /\ \E f \in DOMAIN bars : Len(bars[f]) >= 2 /\ Len(bars[f]) < Len(fed)
    /\ \E f \in DOMAIN bars : Len(bars[f]) = 1 /\ bars[f][1].vol > fed[1].vol

RECURSIVE TotalVol(_, _)
TotalVol(bs, i) == IF i = 0 THEN 0 ELSE TotalVol(bs, i - 1) + bs[i].vol

\* the volume of the bars of df, from row i on, that update on g and its
\* successors did not drop as duplicates
RECURSIVE AcceptedVol(_, _, _)
AcceptedVol(g, df, i) ==
    IF i > Len(df) THEN 0
    ELSE (IF is_duplicate(g, df[i]) THEN 0 ELSE df[i].vol)
         + AcceptedVol(update(g, df[i]).g, df, i + 1)

\* C20: right after a non-duplicate update(b) the last bar of every tracked
\* frequency has b's close and that frequency's period end of b.dt, and on
\* an unseeded, untrimmed generator every series' total volume is the
\* total volume of the accepted base bars.
C20_CrossFreqSync ==
    /\ NonDuplicateUpdate => AllConsumed(CallBar)
    /\ (fed # << >> /\ Len(fed) <= max_count) =>
          \A f \in DOMAIN bars :
              TotalVol(bars[f], Len(bars[f]))
                  = AcceptedVol(BarGenerator(base_freq, freqs, max_count).g, fed, 1)

(***************************************************************************)
(* The period-end resolvers on their own (SpecResolve): an instant is      *)
(* drawn, and freq_end_date, freq_end_time or freq_end_time_V230921 is     *)
(* called on it for some frequency.                                        *)
(***************************************************************************)
\* Monday 2024-03-11 .. Sunday 2024-03-17, month, quarter and year ends,
\* February of a leap and of a common year
ResolveDates ==
    { <<2024, 3, d>> : d \in 11 .. 17 }
    \cup { <<2024, 2, 10>>, <<2024, 2, 29>>, <<2023, 2, 10>>, <<2024, 5, 1>>,
           <<2024, 8, 31>>, <<2024, 12, 15>>, <<2024, 12, 31>>, <<2025, 1, 1>> }

\* (hour, minute, second, microsecond)
ResolveTimes ==
    { <<0, 0, 0, 0>>, <<9, 31, 0, 0>>, <<9, 31, 30, 0>>, <<9, 35, 0, 1>>,
      <<11, 30, 0, 0>>, <<14, 59, 30, 0>>, <<15, 0, 0, 0>>, <<23, 59, 30, 0>> }

Instants ==
    { DateTime(d[1], d[2], d[3], t[1], t[2], t[3], t[4]) : d \in ResolveDates, t \in ResolveTimes }

InitResolve ==
    /\ symbol = "None"
    /\ end_dt = None
    /\ base_freq = "Tick"
    /\ max_count = 0
    /\ freqs = << >>
    /\ bars = << >>
    /\ raised = NoError
    /\ call = NoCall
    /\ prev = [none |-> TRUE]
    /\ seeded = << >>
    /\ fed = << >>
    /\ ncalls = 0
    /\ instant \in Instants
    /\ resolved = None
    /\ gens = << >>
    /\ heap = << >>
    /\ position = None
    /\ returned = None

\* a resolver fn returned r for frequency freq; date is the date it handed
\* to (or was handed as) freq_end_date
Resolved(fn, freq, date, r) ==
    /\ resolved' = [fn |-> fn, freq |-> freq, date |-> Midnight(date.year, date.month, date.day),
                    dt |-> r.dt, raised |-> r.raised]
    /\ UNCHANGED << symbol, end_dt, base_freq, max_count, freqs, bars, raised, call,
                    prev, seeded, fed, ncalls, instant, gens, heap, position, returned >>

\* freq_end_date(instant.date(), freq)
ResolveDate(freq) ==
    Resolved("freq_end_date", freq, instant,
             [dt |-> freq_end_date(instant, freq), raised |-> NoError])

\* freq_end_time(instant, freq)
ResolveStream(freq) ==
    Resolved("freq_end_time", freq, instant,
             [dt |-> freq_end_time(instant, freq), raised |-> NoError])

\* freq_end_time_V230921(instant, freq, market)
ResolveBatch(freq, market) ==
    Resolved("freq_end_time_V230921", freq, round_up_minute(instant),
             freq_end_time_V230921(instant, freq, market))

NextResolve ==
    \/ \E f \in Freq : ResolveDate(f)
    \/ \E f \in Freq : ResolveStream(f)
    \/ \E f \in Freq, market \in {"A", "default"} : ResolveBatch(f, market)

SpecResolve == InitResolve /\ [][NextResolve]_vars

Ordinal(dt) == ToOrdinal(dt.year, dt.month, dt.day)

\* C11: for frequency week every resolver returns the Sunday (ISO weekday 7)
\* of the ISO week of the date it resolves.
C11_WeekEndsSunday ==
    (resolved # None /\ resolved.freq = "W") =>
        /\ IsoWeekday(resolved.dt) = 7
        /\ Ordinal(resolved.dt) - Ordinal(resolved.date) = 7 - IsoWeekday(resolved.date)

\* the month a quarter ends with
QuarterEnd(m) == 3 * ((m + 2) \div 3)

\* C12: for a date the resolver returns, at midnight, the same date for
\* frequency day, the last day of the date's month for month, the last day
\* of the quarter-ending month for quarter, December 31 for year.
C12_CalendarEnds ==
    (resolved # None /\ resolved.freq \in {"D", "M", "S", "Y"}) =>
        /\ resolved.raised = NoError
        /\ resolved.dt.year = resolved.date.year
        /\ resolved.dt.month =
              CASE resolved.freq = "D" -> resolved.date.month
                [] resolved.freq = "M" -> resolved.date.month
                [] resolved.freq = "S" -> QuarterEnd(resolved.date.month)
                [] resolved.freq = "Y" -> 12
        /\ resolved.dt.day =
              IF resolved.freq = "D" THEN resolved.date.day
              ELSE DaysInMonth(resolved.dt.year, resolved.dt.month)
        /\ resolved.dt = Midnight(resolved.dt.year, resolved.dt.month, resolved.dt.day)

\* C12 witness: 2024-02-10 resolved to the leap day 2024-02-29
C12_Witness ==
    /\ resolved # None
    /\ resolved.freq = "M"
    /\ resolved.date = Midnight(2024, 2, 10)
    /\ resolved.dt = Midnight(2024, 2, 29)

\* C13: for an instant with seconds or microseconds, freq_end_time and
\* freq_end_time_V230921 both return the period end of the instant rounded
\* up to the next whole minute.
C13_SecondsRoundUp ==
    (resolved # None /\ (instant.second > 0 \/ instant.microsecond > 0)) =>
        /\ resolved.fn = "freq_end_time" =>
              resolved.dt = freq_end_time(round_up_minute(instant), resolved.freq)
        /\ (resolved.fn = "freq_end_time_V230921" /\ resolved.raised = NoError) =>
              resolved.dt = freq_end_time_V230921_rounded(round_up_minute(instant),
                                                          resolved.freq, "default").dt

(***************************************************************************)
(* Two generators and a caller's list (SpecShared).  A Python list is an   *)
(* object: heap[r] is the content of list r, and a generator's series is   *)
(* a reference r.  __init__ makes a new empty list per key; init_freq_bars *)
(* stores the reference it is handed (self.bars[freq] = bars);             *)
(* _update_freq appends to and assigns into the list in place; the         *)
(* trimming of update binds each key to a new list (a slice).  The caller  *)
(* holds the list Supplied and seeds the base frequency with it, so the    *)
(* series of one generator are always distinct lists.                      *)
(***************************************************************************)
\* the reference of the caller's list
Supplied == 1

\* the generator with each series read through its reference
View(g, h) == [g EXCEPT !.bars = [f \in DOMAIN g.bars |-> h[g.bars[f]]]]

\* position of key f in the key order of g
KeyIndex(g, f) == CHOOSE i \in 1 .. Len(g.keys) : g.keys[i] = f

\* the generator number k of a construction: its keys refer to new lists,
\* allocated after the first many lists of the heap
NewRefs(r, first) ==
    [r.g EXCEPT !.bars = [f \in DOMAIN r.g.bars |-> first + KeyIndex(r.g, f)]]

\* the heap after the in-place appends and assignments of _update_freq
\* left the series of g with the contents bs
written(h, g, bs) ==
    [r \in 1 .. Len(h) |->
        IF \E f \in DOMAIN g.bars : g.bars[f] = r
        THEN bs[CHOOSE f \in DOMAIN g.bars : g.bars[f] = r]
        ELSE h[r]]

\* the heap after the trimming loop: one new list per key, in key order
sliced(h, g) ==
    h \o [i \in 1 .. Len(g.keys) |-> LastN(h[g.bars[g.keys[i]]], g.max_count)]

\* update on generator g over heap h, from the loop on: r is the loop's
\* result on the contents of g's series
shared_finish(g, h, r) ==
    IF r.raised # NoError
    THEN [g |-> g, heap |-> written(h, g, r.bars), raised |-> r.raised]
    ELSE [g |-> [g EXCEPT !.bars = [f \in DOMAIN g.bars |-> Len(h) + KeyIndex(g, f)]],
          heap |-> sliced(written(h, g, r.bars), g),
          raised |-> NoError]

\* update on generator g over heap h, from the duplicate guard on
shared_guarded(g, h, bar) ==
    IF is_duplicate(View(g, h), bar) THEN [g |-> g, heap |-> h, raised |-> NoError]
    ELSE shared_finish(g, h, update_loop(View(g, h).bars, bar, g.keys, 1))

\* BarGenerator.update on generator g over heap h
shared_update(g, h, bar) ==
    IF bar.freq # g.base_freq THEN [g |-> g, heap |-> h, raised |-> "AssertionError"]
    ELSE shared_guarded(record_bar(g, bar), h, bar)

\* BarGenerator.init_freq_bars(freq, bars) with bars the list of reference ref
shared_init_freq_bars(g, h, freq, ref) ==
    IF freq \notin KeySet(g) THEN [g |-> g, heap |-> h, raised |-> "AssertionError"]
    ELSE IF h[g.bars[freq]] # << >> THEN [g |-> g, heap |-> h, raised |-> "AssertionError"]
    ELSE IF h[ref] = << >>
         THEN [g |-> [g EXCEPT !.bars[freq] = ref], heap |-> h, raised |-> "IndexError"]
    ELSE [g |-> [g EXCEPT !.bars[freq] = ref, !.symbol = h[ref][Len(h[ref])].symbol],
          heap |-> h, raised |-> NoError]

\* the two generators of the model are built alike
SharedConfig == << "F1", << "F5" >> >>

InitShared ==
    /\ symbol = "None"
    /\ end_dt = None
    /\ base_freq = "Tick"
    /\ max_count = 0
    /\ freqs = << >>
    /\ bars = << >>
    /\ raised = NoError
    /\ call = NoCall
    /\ prev = [none |-> TRUE]
    /\ seeded = << >>
    /\ fed = << >>
    /\ ncalls = 0
    /\ instant = None
    /\ resolved = None
    /\ position = None
    /\ returned = None
    /\ \E n \in {1, MaxSeedLen}, mc \in 1 .. MaxCount :
          /\ gens = << NewRefs(BarGenerator(SharedConfig[1], SharedConfig[2], mc), 1),
                       NewRefs(BarGenerator(SharedConfig[1], SharedConfig[2], mc), 3) >>
          /\ heap = << SeedBars(SharedConfig[1], n), << >>, << >>, << >>, << >> >>

\* generator k made a call that returned r
SharedReturned(k, r, op, freq, bs) ==
    /\ ncalls < MaxSteps
    /\ gens' = [gens EXCEPT ![k] = r.g]
    /\ heap' = r.heap
    /\ raised' = r.raised
    /\ call' = [op |-> op, freq |-> freq, bars |-> bs, gen |-> k]
    /\ prev' = [views |-> << View(gens[1], heap), View(gens[2], heap) >>,
                supplied |-> heap[Supplied]]
    /\ ncalls' = ncalls + 1
    /\ UNCHANGED << symbol, end_dt, base_freq, max_count, freqs, bars, seeded, fed,
                    instant, resolved, position, returned >>

\* gens[k].init_freq_bars(base_freq, supplied)
SharedSeed(k) ==
    SharedReturned(k, shared_init_freq_bars(gens[k], heap, gens[k].base_freq, Supplied),
                   "init_freq_bars", gens[k].base_freq, heap[Supplied])

\* gens[k].update(bar)
SharedUpdate(k, bar) ==
    SharedReturned(k, shared_update(gens[k], heap, bar), "update", bar.freq, << bar >>)

NextShared ==
    \/ \E k \in 1 .. 2 : SharedSeed(k)
    \/ \E k \in 1 .. 2, b \in UpdateBars(SharedConfig[1]) : SharedUpdate(k, b)

SpecShared == InitShared /\ [][NextShared]_vars

\* what a generator exposes: its series, symbol and end_dt
Exposed(v) == [bars |-> v.bars, symbol |-> v.symbol, end_dt |-> v.end_dt]

\* C14: a call on one generator leaves the other generator's series,
\* symbol and end_dt as they were, also when both were seeded with the same
\* list, and an update never changes the list the caller supplied.
C14_NoSharedState ==
    call.op # "none" =>
        /\ Exposed(View(gens[3 - call.gen], heap)) = Exposed(prev.views[3 - call.gen])
        /\ call.op = "update" => heap[Supplied] = prev.supplied

(***************************************************************************)
(* objects.Position (SpecPosition): the position machine built in          *)
(* __init__ and driven by update.  A trigger method of the machine moves   *)
(* state to the destination of the transition added for it from the        *)
(* current state, and raises MachineError when none was added.             *)
(***************************************************************************)
\* self.states, the keys of pos_map
PositionStates ==
    { "hold_long_a", "hold_long_b", "hold_long_c", "hold_money",
      "hold_short_a", "hold_short_b", "hold_short_c" }

\* the members of Operate that update_long and update_short name, and
\* "other" for any member they do not name
Operate ==
    { "LO", "LA1", "LA2", "LR1", "LR2", "LE", "SO", "SA1", "SA2", "SR1", "SR2", "SE", "other" }

\* the add_transition calls of __init__: (trigger, sources, dest)
machine_transitions ==
    { << "long_open", {"hold_money"}, "hold_long_a" >>,
      << "long_add1", {"hold_long_a"}, "hold_long_b" >>,
      << "long_add2", {"hold_long_b"}, "hold_long_c" >>,
      << "long_reduce1", {"hold_long_c"}, "hold_long_b" >>,
      << "long_reduce2", {"hold_long_b", "hold_long_c"}, "hold_long_a" >>,
      << "long_exit", {"hold_long_a", "hold_long_b", "hold_long_c"}, "hold_money" >>,
      << "short_open", {"hold_money"}, "hold_short_a" >>,
      << "short_add1", {"hold_short_a"}, "hold_short_b" >>,
      << "short_add2", {"hold_short_b"}, "hold_short_c" >>,
      << "short_reduce1", {"hold_short_c"}, "hold_short_b" >>,
      << "short_reduce2", {"hold_short_b", "hold_short_c"}, "hold_short_a" >>,
      << "short_exit", {"hold_short_a", "hold_short_b", "hold_short_c"}, "hold_money" >> }

\* Position.__init__(symbol) with the default position sizes
Position(sym) ==
    [symbol |-> sym, state |-> "hold_money", operates |-> << >>,
     long_high |-> -1, long_cost |-> -1, long_bid |-> -1,
     short_low |-> -1, short_cost |-> -1, short_bid |-> -1]

\* the transitions added for trigger from state
Enabled(trigger, state) == { t \in machine_transitions : t[1] = trigger /\ state \in t[2] }

\* self.<trigger>() followed by return True
fire(p, trigger) ==
    IF Enabled(trigger, p.state) = {}
    THEN [p |-> p, ret |-> FALSE, raised |-> "MachineError"]
    ELSE [p |-> [p EXCEPT !.state = (CHOOSE t \in Enabled(trigger, p.state) : TRUE)[3]],
          ret |-> TRUE, raised |-> NoError]

\* return pos_changed, which is still False
unchanged(p) == [p |-> p, ret |-> FALSE, raised |-> NoError]

\* update_long without its long_reduce1 branch
update_long_no_reduce1(p, dt, op, price, bid) ==
    IF p.state = "hold_money" /\ op = "LO" THEN fire(p, "long_open")
    ELSE IF p.state = "hold_long_a" /\ op = "LA1" THEN fire(p, "long_add1")
    ELSE IF p.state = "hold_long_b" /\ op = "LA2" THEN fire(p, "long_add2")
    ELSE IF p.state \in {"hold_long_b", "hold_long_c"} /\ op = "LR2" THEN fire(p, "long_reduce2")
    ELSE IF p.state \in {"hold_long_a", "hold_long_b", "hold_long_c"} /\ op = "LE"
         THEN fire(p, "long_exit")
    ELSE unchanged(p)

\* Position.update_long
update_long(p, dt, op, price, bid) ==
    IF p.state = "hold_money" /\ op = "LO" THEN fire(p, "long_open")
    ELSE IF p.state = "hold_long_a" /\ op = "LA1" THEN fire(p, "long_add1")
    ELSE IF p.state = "hold_long_b" /\ op = "LA2" THEN fire(p, "long_add2")
    ELSE IF p.state = "hold_long_c" /\ op = "LR1" THEN fire(p, "long_reduce1")
    ELSE IF p.state \in {"hold_long_b", "hold_long_c"} /\ op = "LR2" THEN fire(p, "long_reduce2")
    ELSE IF p.state \in {"hold_long_a", "hold_long_b", "hold_long_c"} /\ op = "LE"
         THEN fire(p, "long_exit")
    ELSE unchanged(p)

\* Position.update_short
update_short(p, dt, op, price, bid) ==
    IF p.state = "hold_money" /\ op = "SO" THEN fire(p, "short_open")
    ELSE IF p.state = "hold_short_a" /\ op = "SA1" THEN fire(p, "short_add1")
    ELSE IF p.state = "hold_short_b" /\ op = "SA2" THEN fire(p, "short_add2")
    ELSE IF p.state = "hold_short_c" /\ op = "SR1" THEN fire(p, "short_reduce1")
    ELSE IF p.state \in {"hold_short_b", "hold_short_c"} /\ op = "SR2" THEN fire(p, "short_reduce2")
    ELSE IF p.state \in {"hold_short_a", "hold_short_b", "hold_short_c"} /\ op = "SE"
         THEN fire(p, "short_exit")
    ELSE unchanged(p)

\* Position.update once update_long returned r
update_after_long(r, dt, op, price, bid) ==
    IF r.raised # NoError \/ r.ret THEN r ELSE update_short(r.p, dt, op, price, bid)

\* Position.update
Position_update(p, dt, op, price, bid) ==
    update_after_long(update_long(p, dt, op, price, bid), dt, op, price, bid)

\* the prices and 1-minute bar ids update is called with
Prices == {1, 2}

Bids == {0, 1}

InitPosition ==
    /\ symbol = "None"
    /\ end_dt = None
    /\ base_freq = "Tick"
    /\ max_count = 0
    /\ freqs = << >>
    /\ bars = << >>
    /\ raised = NoError
    /\ call = NoCall
    /\ prev = [none |-> TRUE]
    /\ seeded = << >>
    /\ fed = << >>
    /\ ncalls = 0
    /\ instant = None
    /\ resolved = None
    /\ gens = << >>
    /\ heap = << >>
    /\ position = Position("A")
    /\ returned = None

\* the call position.update(dt, op, price, bid) gave r
PositionReturned(r, dt, op, price, bid) ==
    /\ position' = r.p
    /\ returned' = r.ret
    /\ raised' = r.raised
    /\ call' = [op |-> "Position.update", dt |-> dt, operate |-> op, price |-> price, bid |-> bid]
    /\ prev' = position
    /\ UNCHANGED << symbol, end_dt, base_freq, max_count, freqs, bars, seeded, fed, ncalls,
                    instant, resolved, gens, heap >>

\* position.update(dt, op, price, bid)
PositionUpdate(dt, op, price, bid) ==
    PositionReturned(Position_update(position, dt, op, price, bid), dt, op, price, bid)

NextPosition ==
    \E dt \in {T0931, T0935}, op \in Operate, price \in Prices, bid \in Bids :
        PositionUpdate(dt, op, price, bid)

SpecPosition == InitPosition /\ [][NextPosition]_vars

\* the defined transitions: (state, op, next state)
DefinedTransitions ==
    { << "hold_money", "LO", "hold_long_a" >>,
      << "hold_long_a", "LA1", "hold_long_b" >>,
      << "hold_long_b", "LA2", "hold_long_c" >>,
      << "hold_long_c", "LR1", "hold_long_b" >>,
      << "hold_long_b", "LR2", "hold_long_a" >>,
      << "hold_long_c", "LR2", "hold_long_a" >>,
      << "hold_long_a", "LE", "hold_money" >>,
      << "hold_long_b", "LE", "hold_money" >>,
      << "hold_long_c", "LE", "hold_money" >>,
      << "hold_money", "SO", "hold_short_a" >>,
      << "hold_short_a", "SA1", "hold_short_b" >>,
      << "hold_short_b", "SA2", "hold_short_c" >>,
      << "hold_short_c", "SR1", "hold_short_b" >>,
      << "hold_short_b", "SR2", "hold_short_a" >>,
      << "hold_short_c", "SR2", "hold_short_a" >>,
      << "hold_short_a", "SE", "hold_money" >>,
      << "hold_short_b", "SE", "hold_money" >>,
      << "hold_short_c", "SE", "hold_money" >> }

DefinedFrom(state, op) == { t \in DefinedTransitions : t[1] = state /\ t[2] = op }

LongStates == {"hold_long_a", "hold_long_b", "hold_long_c"}

ShortStates == {"hold_short_a", "hold_short_b", "hold_short_c"}

\* C21: the state is always one of the seven position states; each update
\* returns True exactly when (state, op) is a defined transition, and then
\* the state is that transition's target, whatever dt, price and bid were;
\* otherwise it returns False and the state is unchanged; nothing else of
\* the position changes, no call raises, and a long state is never directly
\* followed by a short state or a short state by a long one.
C21_PositionMachine ==
    /\ position.state \in PositionStates
    /\ call.op = "Position.update" =>
          /\ raised = NoError
          /\ returned = (DefinedFrom(prev.state, call.operate) # {})
          /\ returned => \A t \in DefinedFrom(prev.state, call.operate) : position.state = t[3]
          /\ ~returned => position.state = prev.state
          /\ position = [prev EXCEPT !.state = position.state]
          /\ ~(prev.state \in LongStates /\ position.state \in ShortStates)
          /\ ~(prev.state \in ShortStates /\ position.state \in LongStates)

\* C21 witness: a short position reduced from hold_short_c to hold_short_a
\* by SR2, after update_long declined the operation
C21_Witness ==
    /\ call.op = "Position.update"
    /\ prev.state = "hold_short_c"
    /\ call.operate = "SR2"
    /\ returned = TRUE
    /\ position.state = "hold_short_a"

====
